---- MODULE Spec2Model ----
(***************************************************************************)
(* Model of pymkm/io/data_registry.py: the registry of bundled default     *)
(* stopping-power files and the elements.json lookup table.                *)
(*                                                                         *)
(* The state is the environment the four functions read: the package tree  *)
(* the import system resolves ("installed" tier), the tree next to the     *)
(* module file ("local" tier), and the record of the last call.            *)
(* A path is the sequence of its segments; a text file is a sequence of    *)
(* lines, a line a sequence of tokens; a JSON text is a sequence of tokens.*)
(***************************************************************************)
EXTENDS Integers, Sequences, FiniteSets, TLC

VARIABLES
    hasFilesApi,   \* importlib.resources.files can be imported (Python >= 3.9)
    instLevel,     \* how far pymkm.data.defaults resolves: "none" | "data" | "root"
    instDirs,      \* subdirectories of the installed root, in iteration order
    localFiles,    \* <<source, filename>> pairs existing under ../data/defaults
    instJson,      \* content of the installed data/elements.json, or "absent"
    localJson,     \* content of the local ../data/elements.json, or "absent"
    last,          \* the last call and its outcome
    prevSources    \* outcome of the get_available_sources() call before the last one

fs == <<hasFilesApi, instLevel, instDirs, localFiles, instJson, localJson>>
vars == <<hasFilesApi, instLevel, instDirs, localFiles, instJson, localJson, last, prevSources>>

----------------------------------------------------------------------------
\* Bounds and the small input sets.

MaxFiles == 2

\* a plain name and one with a dot in it
Sources == {"geant4_11_3_0", "mstar_3.12"}
FileNames == {"carbon.txt", "proton.txt", "notes.md"}
Contents == {"full", "noTarget", "bare"}
JsonNames == {"hydrogen", "empty", "two", "truncated", "noColon", "blank", "trailing"}
Levels == {"none", "data", "root"}

----------------------------------------------------------------------------
\* Paths.

REQUIRED_HEADER_KEYS ==
    <<"Ion", "AtomicNumber", "MassNumber", "SourceProgram", "IonizationPotential", "Target">>

Range(s) == {s[i] : i \in 1..Len(s)}

\* os.path.dirname / Path.parent
Dirname(p) == SubSeq(p, 1, Len(p) - 1)

\* os.path.join(base, name) for a plain name
Join(p, name) == Append(p, name)

\* Path.name / the terminal segment
Basename(p) == p[Len(p)]

\* Path.suffix of the modelled names
Suffix(name) ==
    CASE name = "carbon.txt" -> ".txt"
      [] name = "proton.txt" -> ".txt"
      [] name = "notes.md" -> ".md"
      [] name = "__init__.py" -> ".py"
      [] OTHER -> ""

\* the source can be the last component of a dotted module name
IsModuleName(source) == source # "mstar_3.12"

\* The directory the import system gives for pymkm.data.defaults.<source>
InstDir(source) == <<"installed", "pymkm", "data", "defaults", source>>

\* abspath(dirname(__file__)/../data/defaults/<source>/<filename>)
LocalPath(source, filename) == <<"local", "pymkm", "data", "defaults", source, filename>>

----------------------------------------------------------------------------
\* Text files and the header they declare.

Body(c) ==
    CASE c = "full" ->
           << <<"Ion", "=", "C">>,
              <<" ", "AtomicNumber", " ", "=", " ", "6">>,
              <<"MassNumber", "=", "12">>,
              <<"SourceProgram", "=", "Geant4", "=", "11.3">>,
              <<"IonizationPotential", "=", "78.0">>,
              <<"Target", " ", "=", "Water">>,
              <<"1.0", " ", "2.0">> >>
      [] c = "noTarget" ->
           << <<"Ion", "=", "C">>,
              <<"AtomicNumber", "=", "6">>,
              <<"MassNumber", "=", "12">>,
              <<"SourceProgram", "=", "Geant4">>,
              <<"IonizationPotential", "=", "78.0">>,
              <<"Target", " ", "Water">>,
              <<"1.0", " ", "2.0">> >>
      [] OTHER ->
           << <<"ion", "=", "C">>,
              <<"=", "AtomicNumber">>,
              <<"MassNumber", "=", "12">>,
              <<"Source", "Program", "=", "Geant4">>,
              <<"IonizationPotential", "=", "78.0">>,
              <<"1.0", " ", "2.0">> >>

\* '=' in line
HasEq(line) == \E i \in 1..Len(line) : line[i] = "="

\* line.split('=')[0]
BeforeEq(line) ==
    LET i == CHOOSE k \in 1..Len(line) :
                 line[k] = "=" /\ \A j \in 1..(k - 1) : line[j] # "="
    IN SubSeq(line, 1, i - 1)

RECURSIVE LStrip(_)
LStrip(t) == IF t # <<>> /\ Head(t) = " " THEN LStrip(Tail(t)) ELSE t

RECURSIVE RStrip(_)
RStrip(t) == IF t # <<>> /\ t[Len(t)] = " " THEN RStrip(SubSeq(t, 1, Len(t) - 1)) ELSE t

\* str.strip()
Strip(t) == RStrip(LStrip(t))

\* keys of {line.split('=')[0].strip(): ... for line in lines if '=' in line}
HeaderKeys(lines) ==
    {Strip(BeforeEq(lines[i])) : i \in {k \in 1..Len(lines) : HasEq(lines[k])}}

\* [key for key in REQUIRED_HEADER_KEYS if key not in header]
Missing(c) ==
    LET header == HeaderKeys(Body(c))
    IN SelectSeq(REQUIRED_HEADER_KEYS, LAMBDA key : <<key>> \notin header)

----------------------------------------------------------------------------
\* JSON texts and json.load.

JsonText(c) ==
    CASE c = "hydrogen" -> <<"{", "H", ":", "{", "Z", ":", "1", "}", "}">>
      [] c = "empty" -> <<"{", "}">>
      [] c = "two" -> <<"{", "H", ":", "1", ",", "He", ":", "2", ",", "H", ":", "2", "}">>
      [] c = "truncated" -> <<"{", "H", ":", "1">>
      [] c = "noColon" -> <<"{", "H", "1", "}">>
      [] c = "trailing" -> <<"{", "}", "}">>
      [] OTHER -> <<>>

StrTok == {"H", "He", "Z"}
NumTok == {"1", "2"}

JsonFail == [ok |-> FALSE, scalar |-> "", members |-> {}, next |-> 0]

\* dict semantics: a repeated key keeps the last value
Put(members, k, v) == {m \in members : m[1] # k} \cup {<<k, v>>}

Tok(t, i) == IF i <= Len(t) THEN t[i] ELSE "<eof>"

RECURSIVE ParseValue(_, _), ParseMembers(_, _, _)

\* one "key : value" pair at position i, then "," (another pair) or "}"
ParseMembers(t, i, acc) ==
    IF Tok(t, i) \in StrTok /\ Tok(t, i + 1) = ":"
    THEN LET v == ParseValue(t, i + 2)
         IN IF ~v.ok THEN JsonFail
            ELSE LET acc2 == Put(acc, t[i], [scalar |-> v.scalar, members |-> v.members])
                 IN CASE Tok(t, v.next) = "," -> ParseMembers(t, v.next + 1, acc2)
                      [] Tok(t, v.next) = "}" ->
                           [ok |-> TRUE, scalar |-> "", members |-> acc2, next |-> v.next + 1]
                      [] OTHER -> JsonFail
    ELSE JsonFail

\* a scalar or an object starting at position i
ParseValue(t, i) ==
    CASE Tok(t, i) \in StrTok \cup NumTok ->
           [ok |-> TRUE, scalar |-> t[i], members |-> {}, next |-> i + 1]
      [] Tok(t, i) = "{" /\ Tok(t, i + 1) = "}" ->
           [ok |-> TRUE, scalar |-> "", members |-> {}, next |-> i + 2]
      [] Tok(t, i) = "{" /\ Tok(t, i + 1) # "}" -> ParseMembers(t, i + 1, {})
      [] OTHER -> JsonFail

\* json.load(f): the whole text is one value, anything else is a JSONDecodeError
JsonLoad(c) ==
    LET v == ParseValue(JsonText(c), 1)
    IN IF v.ok /\ v.next = Len(JsonText(c)) + 1
       THEN [ok |-> TRUE, scalar |-> v.scalar, members |-> v.members]
       ELSE [ok |-> FALSE, scalar |-> "", members |-> {}]

----------------------------------------------------------------------------
\* The two trees as the functions see them.

NoValue == [scalar |-> "", members |-> {}]

\* an outcome: what a call returns or the error it raises
Out(kind) ==
    [kind |-> kind, path |-> <<>>, names |-> <<>>, value |-> NoValue,
     errSource |-> "", errFilename |-> "", errKeys |-> <<>>]

HasDir(source) == \E i \in 1..Len(instDirs) : instDirs[i].name = source

DirOf(source) == instDirs[CHOOSE i \in 1..Len(instDirs) : instDirs[i].name = source]

EntryNames(entries) == {entries[i].name : i \in 1..Len(entries)}

\* os.path.exists
Exists(p) ==
    CASE Len(p) = 6 /\ p[1] = "installed" ->
           /\ instLevel = "root"
           /\ HasDir(p[5])
           /\ \/ p[6] \in EntryNames(DirOf(p[5]).entries)
              \/ p[6] = "__init__.py" /\ DirOf(p[5]).marker
      [] Len(p) = 6 /\ p[1] = "local" -> <<p[5], p[6]>> \in localFiles
      [] OTHER -> FALSE

\* importlib.util.find_spec("pymkm.data.defaults"); origin <<>> stands for None
find_spec_defaults ==
    CASE instLevel = "none" -> [raised |-> TRUE, found |-> FALSE, origin |-> <<>>]
      [] instLevel = "data" -> [raised |-> FALSE, found |-> FALSE, origin |-> <<>>]
      [] OTHER -> [raised |-> FALSE, found |-> TRUE,
                   origin |-> <<"installed", "pymkm", "data", "defaults", "__init__.py">>]

\* importlib.util.find_spec(f"pymkm.data.defaults.{source}"): ModuleNotFoundError
\* when the parent package is not importable (with a dot in the source the
\* parent is pymkm.data.defaults.<part before the dot>), None when the
\* subdirectory is absent, a namespace spec (origin None) when it has no
\* __init__.py
find_spec_source(source) ==
    CASE instLevel # "root" \/ ~IsModuleName(source) ->
           [raised |-> TRUE, found |-> FALSE, origin |-> <<>>]
      [] instLevel = "root" /\ ~HasDir(source) ->
           [raised |-> FALSE, found |-> FALSE, origin |-> <<>>]
      [] instLevel = "root" /\ HasDir(source) /\ ~DirOf(source).marker ->
           [raised |-> FALSE, found |-> TRUE, origin |-> <<>>]
      [] OTHER -> [raised |-> FALSE, found |-> TRUE,
                   origin |-> Join(InstDir(source), "__init__.py")]

\* from importlib.resources import files; files("pymkm.data.defaults").iterdir()
files_defaults ==
    IF hasFilesApi /\ instLevel = "root"
    THEN [raised |-> FALSE, subdirs |-> instDirs]
    ELSE [raised |-> TRUE, subdirs |-> <<>>]

\* files(f"pymkm.data.defaults.{source}").iterdir(); a directory without
\* __init__.py is importable as a namespace package
files_source(source) ==
    IF hasFilesApi /\ instLevel = "root" /\ IsModuleName(source) /\ HasDir(source)
    THEN [raised |-> FALSE, entries |-> DirOf(source).entries]
    ELSE [raised |-> TRUE, entries |-> <<>>]

\* open(files("pymkm.data").joinpath("elements.json"))
files_data_json ==
    IF hasFilesApi /\ instLevel # "none" /\ instJson # "absent"
    THEN [raised |-> FALSE, content |-> instJson]
    ELSE [raised |-> TRUE, content |-> "blank"]

\* [f for f in d.iterdir() if f.suffix == ".txt"]
TxtFiles(entries) == SelectSeq(entries, LAMBDA e : Suffix(e.name) = ".txt")

\* [f.name for f in ...]
NamesOf(entries) == [i \in 1..Len(entries) |-> entries[i].name]

----------------------------------------------------------------------------
\* The four functions.

\* mutant: the installed path is returned without the existence test
get_default_txt_path_unchecked(source, filename) ==
    LET spec == find_spec_source(source)
        full_path == Join(Dirname(spec.origin), filename)
        local == LocalPath(source, filename)
    IN IF ~spec.raised /\ spec.found /\ spec.origin # <<>>
       THEN [Out("ok") EXCEPT !.path = full_path]
       ELSE IF Exists(local)
            THEN [Out("ok") EXCEPT !.path = local]
            ELSE [Out("NotFound") EXCEPT !.errFilename = filename, !.errSource = source]

\* mutant: the probe of the installed tier is not wrapped in try/except
get_default_txt_path_uncaught(source, filename) ==
    LET spec == find_spec_source(source)
        full_path == Join(Dirname(spec.origin), filename)
        local == LocalPath(source, filename)
    IN IF spec.raised THEN Out("ModuleNotFound")
       ELSE IF spec.found /\ spec.origin # <<>> /\ Exists(full_path)
       THEN [Out("ok") EXCEPT !.path = full_path]
       ELSE IF Exists(local)
            THEN [Out("ok") EXCEPT !.path = local]
            ELSE [Out("NotFound") EXCEPT !.errFilename = filename, !.errSource = source]

get_default_txt_path(source, filename) ==
    LET spec == find_spec_source(source)
        full_path == Join(Dirname(spec.origin), filename)
        local == LocalPath(source, filename)
    IN IF ~spec.raised /\ spec.found /\ spec.origin # <<>> /\ Exists(full_path)
       THEN [Out("ok") EXCEPT !.path = full_path]
       ELSE IF Exists(local)
            THEN [Out("ok") EXCEPT !.path = local]
            ELSE [Out("NotFound") EXCEPT !.errFilename = filename, !.errSource = source]

\* mutant: the scan reports the last .txt file that misses a key
RECURSIVE FirstMissing_last(_, _)
FirstMissing_last(txt_files, j) ==
    IF j > Len(txt_files) THEN <<>>
    ELSE IF FirstMissing_last(txt_files, j + 1) # <<>>
    THEN FirstMissing_last(txt_files, j + 1)
    ELSE Missing(txt_files[j].content)

\* the missing keys of the first .txt file (from position j) that misses any
RECURSIVE FirstMissing(_, _)
FirstMissing(txt_files, j) ==
    IF j > Len(txt_files) THEN <<>>
    ELSE IF Missing(txt_files[j].content) # <<>> THEN Missing(txt_files[j].content)
    ELSE FirstMissing(txt_files, j + 1)

\* mutant: the files are validated before the marker is looked at
RECURSIVE SourcesLoop_validate_all(_, _, _)
SourcesLoop_validate_all(all_subdirectories, i, subdirectories) ==
    IF i > Len(all_subdirectories) THEN [Out("ok") EXCEPT !.names = subdirectories]
    ELSE LET subdir == all_subdirectories[i]
             missing == FirstMissing(TxtFiles(subdir.entries), 1)
         IN IF missing # <<>>
            THEN [Out("MalformedSource") EXCEPT !.errSource = subdir.name, !.errKeys = missing]
            ELSE IF ~subdir.marker
            THEN SourcesLoop_validate_all(all_subdirectories, i + 1, subdirectories)
            ELSE SourcesLoop_validate_all(all_subdirectories, i + 1,
                                          Append(subdirectories, subdir.name))

\* mutant: a malformed source is skipped and the others are still reported
RECURSIVE SourcesLoop_best_effort(_, _, _)
SourcesLoop_best_effort(all_subdirectories, i, subdirectories) ==
    IF i > Len(all_subdirectories) THEN [Out("ok") EXCEPT !.names = subdirectories]
    ELSE LET subdir == all_subdirectories[i]
             missing == FirstMissing(TxtFiles(subdir.entries), 1)
         IN IF ~subdir.marker \/ missing # <<>>
            THEN SourcesLoop_best_effort(all_subdirectories, i + 1, subdirectories)
            ELSE SourcesLoop_best_effort(all_subdirectories, i + 1,
                                         Append(subdirectories, subdir.name))

\* the loop over all_subdirectories from position i; subdirectories is the
\* list built so far
RECURSIVE SourcesLoop(_, _, _)
SourcesLoop(all_subdirectories, i, subdirectories) ==
    IF i > Len(all_subdirectories) THEN [Out("ok") EXCEPT !.names = subdirectories]
    ELSE LET subdir == all_subdirectories[i]
             missing == FirstMissing(TxtFiles(subdir.entries), 1)
         IN IF ~subdir.marker
            THEN SourcesLoop(all_subdirectories, i + 1, subdirectories)
            ELSE IF missing # <<>>
            THEN [Out("MalformedSource") EXCEPT !.errSource = subdir.name, !.errKeys = missing]
            ELSE SourcesLoop(all_subdirectories, i + 1, Append(subdirectories, subdir.name))

\* mutant: a list returned by the previous call is returned again
get_available_sources_cached ==
    IF last.op = "sources" /\ last.out.kind = "ok"
    THEN last.out
    ELSE IF ~files_defaults.raised
    THEN SourcesLoop(files_defaults.subdirs, 1, <<>>)
    ELSE IF find_spec_defaults.raised
         THEN Out("ModuleNotFound")
         ELSE Out("RegistryUnavailable")

get_available_sources ==
    IF ~files_defaults.raised
    THEN SourcesLoop(files_defaults.subdirs, 1, <<>>)
    ELSE IF find_spec_defaults.raised
         THEN Out("ModuleNotFound")
         ELSE Out("RegistryUnavailable")

list_available_defaults(source) ==
    IF ~files_source(source).raised
    THEN [Out("ok") EXCEPT !.names = NamesOf(TxtFiles(files_source(source).entries))]
    ELSE LET spec == find_spec_source(source)
         IN IF spec.raised
            THEN Out("ModuleNotFound")
            ELSE IF spec.found /\ spec.origin # <<>>
                 THEN [Out("ok") EXCEPT !.names = NamesOf(TxtFiles(DirOf(source).entries))]
                 ELSE [Out("NotFound") EXCEPT !.errSource = source]

\* json.load of one opened file
LoadFrom(content) ==
    IF JsonLoad(content).ok
    THEN [Out("ok") EXCEPT !.value = [scalar |-> JsonLoad(content).scalar,
                                      members |-> JsonLoad(content).members]]
    ELSE Out("MalformedLookup")

load_lookup_table ==
    IF ~files_data_json.raised /\ JsonLoad(files_data_json.content).ok
    THEN LoadFrom(files_data_json.content)
    ELSE IF localJson = "absent"
         THEN [Out("NotFound") EXCEPT !.errFilename = "elements.json"]
         ELSE LoadFrom(localJson)

----------------------------------------------------------------------------
\* Initial state: a registry with the one source geant4_11_3_0, mirrored in
\* the development tree.

NoCall == [op |-> "none", source |-> "", filename |-> "", out |-> Out("none")]

Bundled(source) ==
    [name |-> source, marker |-> TRUE,
     entries |-> << [name |-> "carbon.txt", content |-> "full"] >>]

InitTree ==
    /\ instLevel = "root"
    /\ instDirs = << Bundled("geant4_11_3_0") >>
    /\ localFiles = {<<"geant4_11_3_0", "carbon.txt">>}
    /\ instJson = "hydrogen"
    /\ localJson = "hydrogen"
    /\ last = NoCall
    /\ prevSources = Out("none")

----------------------------------------------------------------------------
\* Changes of the filesystem made by something else than the registry.

InsertAt(seq, p, e) == SubSeq(seq, 1, p - 1) \o <<e>> \o SubSeq(seq, p, Len(seq))

RemoveAt(seq, p) == SubSeq(seq, 1, p - 1) \o SubSeq(seq, p + 1, Len(seq))

IndexOfDir(source) == CHOOSE i \in 1..Len(instDirs) : instDirs[i].name = source

IndexOfEntry(entries, f) == CHOOSE j \in 1..Len(entries) : entries[j].name = f

\* the caller's view of earlier outcomes is dropped
Forget == last' = NoCall /\ prevSources' = Out("none")

Keep == UNCHANGED <<last, prevSources>>

MkDirFs(source, marker, p) ==
    /\ instLevel = "root"
    /\ ~HasDir(source)
    /\ p \in 1..(Len(instDirs) + 1)
    /\ instDirs' = InsertAt(instDirs, p, [name |-> source, marker |-> marker, entries |-> <<>>])
    /\ UNCHANGED <<hasFilesApi, instLevel, localFiles, instJson, localJson>>

RmDirFs(source) ==
    /\ HasDir(source)
    /\ instDirs' = RemoveAt(instDirs, IndexOfDir(source))
    /\ UNCHANGED <<hasFilesApi, instLevel, localFiles, instJson, localJson>>

SetMarkerFs(source, marker) ==
    /\ HasDir(source)
    /\ DirOf(source).marker # marker
    /\ instDirs' = [instDirs EXCEPT ![IndexOfDir(source)].marker = marker]
    /\ UNCHANGED <<hasFilesApi, instLevel, localFiles, instJson, localJson>>

\* a new file in an installed source directory, at iteration position p
CreateFs(source, f, c, p) ==
    /\ HasDir(source)
    /\ f \notin EntryNames(DirOf(source).entries)
    /\ Len(DirOf(source).entries) < MaxFiles
    /\ p \in 1..(Len(DirOf(source).entries) + 1)
    /\ instDirs' = [instDirs EXCEPT ![IndexOfDir(source)].entries =
                        InsertAt(@, p, [name |-> f, content |-> c])]
    /\ UNCHANGED <<hasFilesApi, instLevel, localFiles, instJson, localJson>>

\* new content for an existing file
RewriteFs(source, f, c) ==
    /\ HasDir(source)
    /\ f \in EntryNames(DirOf(source).entries)
    /\ DirOf(source).entries[IndexOfEntry(DirOf(source).entries, f)].content # c
    /\ instDirs' = [instDirs EXCEPT ![IndexOfDir(source)].entries =
                        [@ EXCEPT ![IndexOfEntry(@, f)].content = c]]
    /\ UNCHANGED <<hasFilesApi, instLevel, localFiles, instJson, localJson>>

UnlinkFs(source, f) ==
    /\ HasDir(source)
    /\ f \in EntryNames(DirOf(source).entries)
    /\ instDirs' = [instDirs EXCEPT ![IndexOfDir(source)].entries =
                        RemoveAt(@, IndexOfEntry(@, f))]
    /\ UNCHANGED <<hasFilesApi, instLevel, localFiles, instJson, localJson>>

CreateLocalFs(source, f) ==
    /\ <<source, f>> \notin localFiles
    /\ Cardinality({x \in localFiles : x[1] = source}) < MaxFiles
    /\ localFiles' = localFiles \cup {<<source, f>>}
    /\ UNCHANGED <<hasFilesApi, instLevel, instDirs, instJson, localJson>>

UnlinkLocalFs(source, f) ==
    /\ <<source, f>> \in localFiles
    /\ localFiles' = localFiles \ {<<source, f>>}
    /\ UNCHANGED <<hasFilesApi, instLevel, instDirs, instJson, localJson>>

\* packages installed or removed: below "root" there are no source
\* directories, below "data" the installed elements.json is out of reach
SetLevelFs(level) ==
    /\ level # instLevel
    /\ instLevel' = level
    /\ instDirs' = IF level = "root" THEN instDirs ELSE <<>>
    /\ UNCHANGED <<hasFilesApi, localFiles, instJson, localJson>>

WriteInstJsonFs(c) ==
    /\ instLevel # "none"
    /\ instJson # c
    /\ instJson' = c
    /\ UNCHANGED <<hasFilesApi, instLevel, instDirs, localFiles, localJson>>

WriteLocalJsonFs(c) ==
    /\ localJson # c
    /\ localJson' = c
    /\ UNCHANGED <<hasFilesApi, instLevel, instDirs, localFiles, instJson>>

----------------------------------------------------------------------------
\* Calls of the four public functions. No call writes the filesystem.

Called(op, source, filename, out) ==
    [op |-> op, source |-> source, filename |-> filename, out |-> out]

\* what the call before this one returned, when it was get_available_sources()
Previous == IF last.op = "sources" THEN last.out ELSE Out("none")

CallResolve(source, filename) ==
    /\ last' = Called("resolve", source, filename, get_default_txt_path(source, filename))
    /\ prevSources' = Previous
    /\ UNCHANGED fs

CallSources ==
    /\ last' = Called("sources", "", "", get_available_sources)
    /\ prevSources' = Previous
    /\ UNCHANGED fs

CallList(source) ==
    /\ last' = Called("list", source, "", list_available_defaults(source))
    /\ prevSources' = Previous
    /\ UNCHANGED fs

CallLookup ==
    /\ last' = Called("lookup", "", "", load_lookup_table)
    /\ prevSources' = Previous
    /\ UNCHANGED fs

----------------------------------------------------------------------------
\* Actions of the specifications.

TxtNames == {f \in FileNames : Suffix(f) = ".txt"}

\* the content of a file that is never read is not distinguished
ContentsFor(f) == IF Suffix(f) = ".txt" THEN Contents ELSE {"bare"}

MkDir == \E s \in Sources, m \in BOOLEAN, p \in 1..Cardinality(Sources) :
             MkDirFs(s, m, p) /\ Forget

RmDir == \E s \in Sources : RmDirFs(s) /\ Forget

SetMarker == \E s \in Sources, m \in BOOLEAN : SetMarkerFs(s, m) /\ Forget

Create == \E s \in Sources, f \in FileNames, p \in 1..MaxFiles :
              \E c \in ContentsFor(f) : CreateFs(s, f, c, p) /\ Forget

Rewrite == \E s \in Sources, f \in TxtNames, c \in Contents :
               RewriteFs(s, f, c) /\ Forget

Unlink == \E s \in Sources, f \in FileNames : UnlinkFs(s, f) /\ Forget

SetLevel == \E l \in Levels : SetLevelFs(l) /\ Forget

\* the same with well-formed files only
CreateFull == \E s \in Sources, f \in FileNames, p \in 1..MaxFiles :
                  CreateFs(s, f, IF Suffix(f) = ".txt" THEN "full" ELSE "bare", p) /\ Forget

\* proton.txt is always written whole, carbon.txt possibly without its Target
CreateSome == \E s \in Sources, f \in FileNames, p \in 1..MaxFiles :
                  \E c \in (IF f = "carbon.txt" THEN {"full", "noTarget"}
                            ELSE IF f = "proton.txt" THEN {"full"} ELSE {"bare"}) :
                      CreateFs(s, f, c, p) /\ Forget

CreateLocal == \E s \in Sources : CreateLocalFs(s, "carbon.txt") /\ Forget

UnlinkLocal == \E s \in Sources : UnlinkLocalFs(s, "carbon.txt") /\ Forget

WriteInstJson == \E c \in JsonNames \cup {"absent"} : WriteInstJsonFs(c) /\ Forget

WriteLocalJson == \E c \in JsonNames \cup {"absent"} : WriteLocalJsonFs(c) /\ Forget

Resolve == \E s \in Sources, f \in FileNames \cup {"__init__.py"} : CallResolve(s, f)

ListSources == CallSources

ListFiles == \E s \in Sources : CallList(s)

Lookup == CallLookup

\* changes that keep the caller's record of earlier outcomes
RewriteKeep == \E s \in Sources, c \in Contents : RewriteFs(s, "carbon.txt", c) /\ Keep

LocalKeep ==
    \/ CreateLocalFs("geant4_11_3_0", "carbon.txt") /\ Keep
    \/ UnlinkLocalFs("geant4_11_3_0", "carbon.txt") /\ Keep

JsonKeep == \E c \in {"hydrogen", "truncated"} : WriteInstJsonFs(c) /\ Keep

----------------------------------------------------------------------------
\* Specifications.

\* any interpreter
InitAny == hasFilesApi \in BOOLEAN /\ InitTree

\* get_available_sources() over every layout of the installed root

NextSources ==
    \/ MkDir \/ RmDir \/ SetMarker \/ Create \/ Rewrite \/ Unlink \/ SetLevel
    \/ ListSources

\* an interpreter that has importlib.resources.files
InitFiles == hasFilesApi = TRUE /\ InitTree

SpecSources == InitFiles /\ [][NextSources]_vars

\* get_available_sources() when the first lookup of the root fails
NextFallback ==
    \/ MkDir \/ RmDir \/ SetMarker \/ SetLevel
    \/ ListSources

SpecFallback == InitAny /\ [][NextFallback]_vars

\* get_default_txt_path() over both tiers

NextResolve ==
    \/ MkDir \/ RmDir \/ SetMarker \/ CreateFull \/ Unlink \/ SetLevel
    \/ CreateLocal \/ UnlinkLocal
    \/ Resolve

SpecResolve == InitFiles /\ [][NextResolve]_vars

\* the three listing and resolving functions on one filesystem
NextAgree ==
    \/ MkDir \/ RmDir \/ SetMarker \/ CreateSome \/ Unlink \/ SetLevel
    \/ ListSources \/ ListFiles \/ Resolve

SpecAgree == InitAny /\ [][NextAgree]_vars

\* load_lookup_table() over both elements.json files
NextLookup ==
    \/ SetLevel \/ WriteInstJson \/ WriteLocalJson
    \/ Lookup

SpecLookup == InitAny /\ [][NextLookup]_vars

\* calls interleaved with changes of the files, earlier outcomes kept
NextHistory ==
    \/ RewriteKeep \/ LocalKeep \/ JsonKeep
    \/ ListSources \/ ListFiles \/ Resolve \/ Lookup

SpecHistory == InitAny /\ [][NextHistory]_vars

Spec == SpecSources

----------------------------------------------------------------------------
\* What the claims speak about, stated on the trees themselves.

\* the installed tier resolves the source to a directory of a regular package
InstResolves(source) ==
    instLevel = "root" /\ IsModuleName(source) /\ HasDir(source) /\ DirOf(source).marker

InstHit(source, filename) ==
    /\ InstResolves(source)
    /\ filename \in EntryNames(DirOf(source).entries) \cup {"__init__.py"}

LocalHit(source, filename) == <<source, filename>> \in localFiles

InstPath(source, filename) == <<"installed", "pymkm", "data", "defaults", source, filename>>

\* the root listing is obtained by the first lookup
RootListed == hasFilesApi /\ instLevel = "root"

\* positions <<i, j>> of the .txt files of marker-bearing subdirectories that
\* miss a required key; j counts the .txt files of subdirectory i
Malformed ==
    {<<i, j>> \in (1..Len(instDirs)) \X (1..(MaxFiles + 1)) :
        /\ instDirs[i].marker
        /\ j <= Len(TxtFiles(instDirs[i].entries))
        /\ Missing(TxtFiles(instDirs[i].entries)[j].content) # <<>>}

Before(a, b) == a[1] < b[1] \/ (a[1] = b[1] /\ a[2] <= b[2])

FirstMalformed == CHOOSE a \in Malformed : \A b \in Malformed : Before(a, b)

MissingAt(a) == Missing(TxtFiles(instDirs[a[1]].entries)[a[2]].content)

\* names of the marker-bearing subdirectories in iteration order
MarkedNames == NamesOf(SelectSeq(instDirs, LAMBDA d : d.marker))

----------------------------------------------------------------------------
\* C1: get_default_txt_path tries the installed tier first and the local tier
\* second: a file present in the installed source directory is returned from
\* there (also when the local tree has it too), otherwise the local path is
\* returned when it exists, otherwise the call fails with NotFound naming the
\* filename and the source; a returned path exists and ends in the filename.
C1_TierOrder ==
    last.op = "resolve" =>
        LET s == last.source
            f == last.filename
            out == last.out
        IN /\ InstHit(s, f) => out.kind = "ok" /\ out.path = InstPath(s, f)
           /\ ~InstHit(s, f) /\ LocalHit(s, f) =>
                  out.kind = "ok" /\ out.path = LocalPath(s, f)
           /\ ~InstHit(s, f) /\ ~LocalHit(s, f) =>
                  out.kind = "NotFound" /\ out.errFilename = f /\ out.errSource = s
           /\ out.kind = "ok" => Exists(out.path) /\ Basename(out.path) = f

C1_Witness ==
    /\ last.op = "resolve"
    /\ InstHit(last.source, last.filename)
    /\ LocalHit(last.source, last.filename)
    /\ last.out.kind = "ok"
    /\ last.out.path[1] = "installed"

\* C6: an error raised while probing the installed tier is suppressed: the
\* call goes on with the local tier, the only failure of get_default_txt_path
\* is NotFound, and it happens only when the local path does not exist.
C6_ProbeErrorSuppressed ==
    last.op = "resolve" =>
        LET s == last.source
            f == last.filename
            out == last.out
        IN /\ out.kind \in {"ok", "NotFound"}
           /\ out.kind = "NotFound" => ~LocalHit(s, f)
           /\ instLevel # "root" \/ ~IsModuleName(s) =>
                  IF LocalHit(s, f)
                  THEN out.kind = "ok" /\ out.path = LocalPath(s, f)
                  ELSE out.kind = "NotFound"

C6_Witness ==
    /\ last.op = "resolve"
    /\ find_spec_source(last.source).raised
    /\ last.out.kind = "ok"
    /\ last.out.path = LocalPath(last.source, last.filename)

\* C2 as stated: every .txt file of a marker-bearing subdirectory that misses
\* a required key makes get_available_sources() fail with MalformedSource
\* naming the source of that file and exactly the keys that file misses.
C2_EveryMalformedFileNamed ==
    last.op = "sources" /\ RootListed =>
        \A a \in Malformed :
            /\ last.out.kind = "MalformedSource"
            /\ last.out.errSource = instDirs[a[1]].name
            /\ last.out.errKeys = MissingAt(a)

\* C2 (amended): when the root listing is obtained and some .txt file of a
\* marker-bearing subdirectory misses a required key, get_available_sources()
\* fails with MalformedSource naming the source and exactly the missing keys
\* of the first such file in iteration order, whatever the other sources hold;
\* no list is returned in such a state.
C2_FirstMalformedFileNamed ==
    last.op = "sources" /\ Malformed # {} =>
        /\ last.out.kind # "ok"
        /\ last.out.names = <<>>
        /\ RootListed =>
              /\ last.out.kind = "MalformedSource"
              /\ last.out.errSource = instDirs[FirstMalformed[1]].name
              /\ last.out.errKeys = MissingAt(FirstMalformed)

C2_Witness ==
    /\ last.op = "sources"
    /\ RootListed
    /\ last.out.kind = "MalformedSource"
    /\ \E a \in Malformed, b \in Malformed : MissingAt(a) # MissingAt(b)
    /\ \E i \in 1..Len(instDirs) :
           /\ instDirs[i].marker
           /\ TxtFiles(instDirs[i].entries) # <<>>
           /\ \A j \in 1..MaxFiles : <<i, j>> \notin Malformed

\* C5: a subdirectory without __init__.py is left out of the result of
\* get_available_sources() whatever its files hold: its .txt files are not
\* validated, so it neither appears in the list nor causes MalformedSource.
C5_MarkerlessSkipped ==
    last.op = "sources" =>
        \A i \in 1..Len(instDirs) :
            ~instDirs[i].marker =>
                /\ instDirs[i].name \notin Range(last.out.names)
                /\ last.out.errSource # instDirs[i].name
                /\ RootListed /\ Malformed = {} => last.out.kind = "ok"

C5_Witness ==
    /\ last.op = "sources"
    /\ last.out.kind = "ok"
    /\ last.out.names # <<>>
    /\ \E i \in 1..Len(instDirs) :
           /\ ~instDirs[i].marker
           /\ \E j \in 1..Len(instDirs[i].entries) :
                  /\ Suffix(instDirs[i].entries[j].name) = ".txt"
                  /\ Missing(instDirs[i].entries[j].content) # <<>>

\* C8: get_available_sources() is all-or-nothing: with the root listed it
\* returns a list exactly when every .txt file of every marker-bearing
\* subdirectory declares the six keys, the list then holds every
\* marker-bearing subdirectory once, in iteration order, and nothing else;
\* otherwise it fails and reports no source at all.
C8_AllOrNothing ==
    last.op = "sources" =>
        /\ RootListed => (last.out.kind = "ok" <=> Malformed = {})
        /\ last.out.kind = "ok" => RootListed /\ last.out.names = MarkedNames
        /\ last.out.kind # "ok" => last.out.names = <<>>

C8_Witness ==
    /\ last.op = "sources"
    /\ last.out.kind = "MalformedSource"
    /\ last.out.names = <<>>
    /\ Len(instDirs) = 2
    /\ instDirs[1].marker
    /\ TxtFiles(instDirs[1].entries) # <<>>
    /\ \A j \in 1..MaxFiles : <<1, j>> \notin Malformed
    /\ last.out.errSource = instDirs[2].name

\* C3 as stated: when the first lookup of the root fails and the fallback
\* locates the root, get_available_sources() enumerates the fallback's
\* subdirectories; it fails with RegistryUnavailable only when neither lookup
\* locates the root.
C3_FallbackEnumerates ==
    last.op = "sources" =>
        /\ find_spec_defaults.found => last.out.kind \in {"ok", "MalformedSource"}
        /\ last.out.kind = "RegistryUnavailable" =>
               files_defaults.raised /\ ~find_spec_defaults.found

\* the elements.json the loader locates: the installed one when it can be
\* opened, the local one otherwise
LocatedJson ==
    IF ~files_data_json.raised THEN files_data_json.content ELSE localJson

\* C4 as stated: when the located elements.json is not valid JSON,
\* load_lookup_table() fails with MalformedLookup: it returns no mapping and
\* reports no other error kind.
C4_InvalidJsonIsMalformedLookup ==
    last.op = "lookup" /\ LocatedJson # "absent" /\ ~JsonLoad(LocatedJson).ok =>
        last.out.kind = "MalformedLookup"

\* the source directory can be resolved by one of the two lookups
ListResolvable(source) ==
    \/ ~files_source(source).raised
    \/ ~find_spec_source(source).raised /\ find_spec_source(source).origin # <<>>

\* C7 as stated: list_available_defaults(source) returns exactly the names of
\* the .txt entries of the resolved source directory, headers not validated,
\* and fails with NotFound, and with no other error kind, exactly when the
\* source directory cannot be resolved.
C7_ListOrNotFound ==
    last.op = "list" =>
        IF ListResolvable(last.source)
        THEN /\ last.out.kind = "ok"
             /\ last.out.names = NamesOf(TxtFiles(DirOf(last.source).entries))
        ELSE last.out.kind = "NotFound"

\* C10 as stated: on one filesystem the three functions agree: every source that
\* get_available_sources() returns can be listed, and every file that
\* list_available_defaults() returns for it resolves to that file inside the
\* same installed source directory.
C10_Agree ==
    get_available_sources.kind = "ok" /\ last.source \in Range(get_available_sources.names) =>
        /\ last.op = "list" => last.out.kind = "ok"
        /\ last.op = "resolve"
             /\ list_available_defaults(last.source).kind = "ok"
             /\ last.filename \in Range(list_available_defaults(last.source).names) =>
                 /\ last.out.kind = "ok"
                 /\ last.out.path = InstPath(last.source, last.filename)

\* a step that is a call of one of the four functions
CallStep == last'.op # "none" /\ <<last, prevSources>>' # <<last, prevSources>>

\* the outcome agrees with the trees as they are now
Fresh(l) ==
    /\ l.op = "sources" =>
           /\ l.out.kind = "ok" <=> RootListed /\ Malformed = {}
           /\ l.out.kind = "ok" => l.out.names = MarkedNames
           /\ l.out.kind = "MalformedSource" =>
                  l.out.errSource = instDirs[FirstMalformed[1]].name
    /\ l.op = "resolve" =>
           /\ l.out.kind = "ok" <=> InstHit(l.source, l.filename) \/ LocalHit(l.source, l.filename)
           /\ l.out.kind = "ok" => Exists(l.out.path)
    /\ l.op = "list" /\ l.out.kind = "ok" =>
           l.out.names = NamesOf(TxtFiles(DirOf(l.source).entries))
    /\ l.op = "lookup" /\ l.out.kind = "ok" =>
               \E c \in {instJson, localJson} \ {"absent"} :
                   JsonLoad(c).ok /\ l.out.value.members = JsonLoad(c).members

====
